---- MODULE Spec2Model ----
(***************************************************************************)
(* Model of src/app.py: the ImageTransformer class (five geometric         *)
(* transformations forwarded to OpenCV) and the Streamlit script main().   *)
(*                                                                         *)
(* An image (numpy array) is a record                                      *)
(*   [rows, cols, ch, px]   with px[r][c] a tuple of ch samples in 0..255  *)
(* (row index r = y, column index c = x, both from 0).                     *)
(*                                                                         *)
(* The OpenCV calls the class makes are modelled by what the library       *)
(* computes: cv2.warpAffine / cv2.warpPerspective with their fixed-point   *)
(* coordinate arithmetic, bilinear sampling and constant zero border,      *)
(* cv2.resize with its size rule and bicubic kernel.  Real (double) values *)
(* are carried as exact fractions  numerator / denominator.                *)
(***************************************************************************)
EXTENDS Integers, Sequences, FiniteSets, TLC

VARIABLES
    image,      \* ImageTransformer.image: the array held by the transformer
    imageObj,   \* identity of the array object self.image refers to
    source,     \* the array that was passed to ImageTransformer(...)
    call,       \* the last method call made on the transformer
    ret,        \* what that call returned (an array object) or raised
    \* the Streamlit session that runs main()
    uploaded_file,  \* the file in the uploader: None or [name, img]
    option,         \* the selectbox value
    widgets,        \* the values of the selected option's input widgets
    invoked,        \* the method calls made by the current run of main
    shown,          \* what the page displays after the run
    download,       \* the download button: None or [file_name, data]
    saved,          \* the file names given to download buttons so far
    nsaves,         \* the number of 'Save Output Image' events so far
    clock           \* the wall clock, in ticks

transformer == <<image, imageObj, source, call, ret>>
session == <<uploaded_file, option, widgets, invoked, shown, download,
             saved, nsaves, clock>>
vars == <<transformer, session>>

(***************************************************************************)
(* Bounds of the model                                                     *)
(***************************************************************************)
MaxDim == 2         \* images have 1..MaxDim rows and columns
MaxShift == 2       \* translate offsets range over -MaxShift..MaxShift
MaxClock == 3       \* the clock runs from 0 to MaxClock ticks
TicksPerSecond == 2 \* clock ticks in one second of the timestamp
MaxSaves == 2       \* 'Save Output Image' is clicked at most MaxSaves times

(***************************************************************************)
(* Integer helpers                                                         *)
(***************************************************************************)
Abs(n) == IF n < 0 THEN -n ELSE n

\* cvRound(p/q), q > 0: round to nearest, ties to even (saturate_cast<int>)
cvRound(p, q) ==
    LET t == 2 * p + q
        f == t \div (2 * q)
    IN  IF t % (2 * q) = 0 /\ f % 2 = 1 THEN f - 1 ELSE f

(***************************************************************************)
(* Images the model draws from                                             *)
(***************************************************************************)
Channels == {1, 3}
Patterns == {"ramp", "dot", "full", "checker", "checker2"}

Sample(pat, cols, r, c, k) ==
    CASE pat = "ramp"     -> 10 + 25 * (r * cols + c) + 3 * (k - 1)
      [] pat = "dot"      -> IF r = 0 /\ c = 0 THEN 255 ELSE 0
      [] pat = "full"     -> 255
      [] pat = "checker"  -> IF (r + c) % 2 = 0 THEN 255 ELSE 0
      [] pat = "checker2" -> IF (r + c) % 2 = 1 THEN 255 ELSE 0

MkImage(rows, cols, ch, pat) ==
    [rows |-> rows, cols |-> cols, ch |-> ch,
     px |-> [r \in 0..(rows - 1) |->
               [c \in 0..(cols - 1) |->
                  [k \in 1..ch |-> Sample(pat, cols, r, c, k)]]]]

\* the 4x4 single-channel image with 255 at (0,0) and 0 elsewhere
Dot4x4 == MkImage(4, 4, 1, "dot")

Images ==
    {MkImage(h, w, ch, pat) : h \in 1..MaxDim, w \in 1..MaxDim,
                              ch \in Channels, pat \in Patterns}
    \cup {Dot4x4}

(***************************************************************************)
(* cv2.warpAffine(src, M, dsize): flags = INTER_LINEAR,                    *)
(* borderMode = BORDER_CONSTANT, borderValue = 0.                          *)
(* A 2x3 matrix is [n |-> <<m0, m1, m2, m3, m4, m5>>, d |-> den] and       *)
(* stands for the double matrix  n / den  (den > 0).                       *)
(***************************************************************************)
AB_BITS == 10           \* fixed-point bits of the affine coefficients
INTER_BITS == 5         \* bits of the sub-pixel position
AB_SCALE == 2 ^ AB_BITS
INTER_TAB_SIZE == 2 ^ INTER_BITS
SHRT_MIN == -32768
SHRT_MAX == 32767

saturate_short(v) == IF v < SHRT_MIN THEN SHRT_MIN
                     ELSE IF v > SHRT_MAX THEN SHRT_MAX ELSE v

ZeroMatrix == [n |-> <<0, 0, 0, 0, 0, 0>>, d |-> 1]

\* warpAffine without WARP_INVERSE_MAP inverts M first; a singular M
\* (D = 0) becomes the zero matrix
invertAffineTransform(M) ==
    LET n == M.n
        D == n[1] * n[5] - n[2] * n[4]
        s == IF D < 0 THEN -1 ELSE 1
    IN  IF D = 0 THEN ZeroMatrix
        ELSE [n |-> <<s * n[5] * M.d, -s * n[2] * M.d,
                      s * (n[2] * n[6] - n[3] * n[5]),
                      -s * n[4] * M.d, s * n[1] * M.d,
                      s * (n[3] * n[4] - n[1] * n[6])>>,
              d |-> s * D]

\* sample k of the source at (row r, column c); 0 outside (constant border)
BorderSample(src, r, c, k) ==
    IF r >= 0 /\ r < src.rows /\ c >= 0 /\ c < src.cols
    THEN src.px[r][c][k] ELSE 0

\* remap, bilinear: X and Y are source coordinates in 1/INTER_TAB_SIZE
\* pixel units; the four neighbours are weighted by the fractional parts
remapBilinear(src, X, Y, k) ==
    LET sx == saturate_short(X \div INTER_TAB_SIZE)
        sy == saturate_short(Y \div INTER_TAB_SIZE)
        fx == X % INTER_TAB_SIZE
        fy == Y % INTER_TAB_SIZE
        one == INTER_TAB_SIZE
        acc == (one - fx) * (one - fy) * BorderSample(src, sy, sx, k)
               + fx * (one - fy) * BorderSample(src, sy, sx + 1, k)
               + (one - fx) * fy * BorderSample(src, sy + 1, sx, k)
               + fx * fy * BorderSample(src, sy + 1, sx + 1, k)
    IN  (acc + (one * one) \div 2) \div (one * one)

warpAffine(src, M, width, height) ==
    LET A == invertAffineTransform(M)
        round_delta == (AB_SCALE \div INTER_TAB_SIZE) \div 2
        sh == AB_SCALE \div INTER_TAB_SIZE
        X(x, y) == (cvRound((A.n[2] * y + A.n[3]) * AB_SCALE, A.d) + round_delta
                    + cvRound(A.n[1] * x * AB_SCALE, A.d)) \div sh
        Y(x, y) == (cvRound((A.n[5] * y + A.n[6]) * AB_SCALE, A.d) + round_delta
                    + cvRound(A.n[4] * x * AB_SCALE, A.d)) \div sh
    IN  [rows |-> height, cols |-> width, ch |-> src.ch,
         px |-> [y \in 0..(height - 1) |->
                   [x \in 0..(width - 1) |->
                      [k \in 1..src.ch |->
                         remapBilinear(src, X(x, y), Y(x, y), k)]]]]

(***************************************************************************)
(* What a method call gives back: a new array object, or an exception      *)
(***************************************************************************)
Returned(arr, obj) == [kind |-> "array", obj |-> obj, val |-> arr]
Raised(what) == [kind |-> "error", what |-> what]
NoCall == [op |-> "none"]
NoReturn == [kind |-> "none"]

\* identity of a freshly allocated array: not that of any live object
NewObj(live) == CHOOSE o \in 1..(Cardinality(live) + 1) : o \notin live

(***************************************************************************)
(* ImageTransformer.rotate                                                 *)
(***************************************************************************)
\* the slider's angles whose cosine and sine are 0 or +-1 up to the 1e-16
\* error of the double value, which cvRound absorbs in warpAffine
Angles == {0, 90, 180, 270, 360}
cos(angle) == CASE angle \in {0, 360} -> 1 [] angle = 180 -> -1 [] OTHER -> 0
sin(angle) == CASE angle = 90 -> 1 [] angle = 270 -> -1 [] OTHER -> 0

\* a slip in the translation column: alpha where (1 - alpha) belongs
getRotationMatrix2DSlip(cx2, cy2, angle) ==
    LET alpha == cos(angle)
        beta == sin(angle)
    IN  [n |-> <<2 * alpha, 2 * beta, alpha * cx2 - beta * cy2,
                 -2 * beta, 2 * alpha, beta * cx2 + alpha * cy2>>,
         d |-> 2]

\* getRotationMatrix2D(center = (cx2/2, cy2/2), angle, scale = 1)
getRotationMatrix2D(cx2, cy2, angle) ==
    LET alpha == cos(angle)
        beta == sin(angle)
    IN  [n |-> <<2 * alpha, 2 * beta, (1 - alpha) * cx2 - beta * cy2,
                 -2 * beta, 2 * alpha, beta * cx2 + (1 - alpha) * cy2>>,
         d |-> 2]

\* a slip in the canvas size: (rows, cols) where (cols, rows) belongs
rotateSwapped(img, angle) ==
    LET rows == img.rows
        cols == img.cols
        M == getRotationMatrix2D(cols, rows, angle)
    IN  warpAffine(img, M, rows, cols)

rotate(img, angle) ==
    LET rows == img.rows
        cols == img.cols
        M == getRotationMatrix2D(cols, rows, angle)
    IN  warpAffine(img, M, cols, rows)

(***************************************************************************)
(* ImageTransformer.translate                                              *)
(***************************************************************************)
\* a slip in the matrix: dx and dy exchanged
translateSwapped(img, dx, dy) ==
    LET M == [n |-> <<1, 0, dy, 0, 1, dx>>, d |-> 1]
    IN  warpAffine(img, M, img.cols, img.rows)

translate(img, dx, dy) ==
    LET M == [n |-> <<1, 0, dx, 0, 1, dy>>, d |-> 1]
    IN  warpAffine(img, M, img.cols, img.rows)

(***************************************************************************)
(* ImageTransformer.scale: cv2.resize(src, None, fx, fy, INTER_CUBIC).     *)
(* A scale factor is a fraction <<a, b>> = a / b with b > 0.               *)
(***************************************************************************)
INTER_RESIZE_COEF_BITS == 11
INTER_RESIZE_COEF_SCALE == 2 ^ INTER_RESIZE_COEF_BITS

clip(v, lo, hi) == IF v < lo THEN lo ELSE IF v > hi THEN hi ELSE v

\* the four cubic-convolution weights (A = -3/4) at the fractional position
\* p / q, each as saturate_cast<short>(weight * INTER_RESIZE_COEF_SCALE)
interpolateCubic(p, q) ==
    LET t == p + q
        u == q - p
        q3 == q * q * q
        c0 == ((-3 * t + 15 * q) * t - 24 * q * q) * t + 12 * q3
        c1 == (5 * p - 9 * q) * p * p + 4 * q3
        c2 == (5 * u - 9 * q) * u * u + 4 * q3
        c3 == 4 * q3 - c0 - c1 - c2
        w(c) == cvRound(c * (INTER_RESIZE_COEF_SCALE \div 4), q3)
    IN  <<w(c0), w(c1), w(c2), w(c3)>>

\* destination index d maps to source position ((2d + 1) b - a) / (2a):
\* its floor and its fractional part over 2a
resizeOfs(d, f) == ((2 * d + 1) * f[2] - f[1]) \div (2 * f[1])
resizeFrac(d, f) == ((2 * d + 1) * f[2] - f[1]) % (2 * f[1])

resizeCubic(src, width, height, fx, fy) ==
    LET alpha(dx) == interpolateCubic(resizeFrac(dx, fx), 2 * fx[1])
        beta(dy) == interpolateCubic(resizeFrac(dy, fy), 2 * fy[1])
        col(dx, j) == clip(resizeOfs(dx, fx) - 1 + (j - 1), 0, src.cols - 1)
        row(dy, j) == clip(resizeOfs(dy, fy) - 1 + (j - 1), 0, src.rows - 1)
        hsum(r, dx, k) ==
            LET a == alpha(dx)
            IN  a[1] * src.px[r][col(dx, 1)][k] + a[2] * src.px[r][col(dx, 2)][k]
                + a[3] * src.px[r][col(dx, 3)][k] + a[4] * src.px[r][col(dx, 4)][k]
        vsum(dy, dx, k) ==
            LET b == beta(dy)
            IN  b[1] * hsum(row(dy, 1), dx, k) + b[2] * hsum(row(dy, 2), dx, k)
                + b[3] * hsum(row(dy, 3), dx, k) + b[4] * hsum(row(dy, 4), dx, k)
        half == (INTER_RESIZE_COEF_SCALE * INTER_RESIZE_COEF_SCALE) \div 2
        full == INTER_RESIZE_COEF_SCALE * INTER_RESIZE_COEF_SCALE
    IN  [rows |-> height, cols |-> width, ch |-> src.ch,
         px |-> [dy \in 0..(height - 1) |->
                   [dx \in 0..(width - 1) |->
                      [k \in 1..src.ch |->
                         clip((vsum(dy, dx, k) + half) \div full, 0, 255)]]]]

\* an exception of the library in place of an array
Cv2Error == [error |-> "cv2.error"]
IsError(r) == "error" \in DOMAIN r

\* cv2.resize with dsize = None: an array, or cv2.error when an assertion
\* of the library fails (a factor <= 0, or an empty destination size)
resize(src, fx, fy) ==
    IF fx[1] <= 0 \/ fy[1] <= 0 THEN Cv2Error
    ELSE LET width == cvRound(src.cols * fx[1], fx[2])
             height == cvRound(src.rows * fy[1], fy[2])
         IN  IF width <= 0 \/ height <= 0 THEN Cv2Error
             ELSE IF width = src.cols /\ height = src.rows
                  THEN src          \* src.copyTo(dst)
                  ELSE resizeCubic(src, width, height, fx, fy)

scale(img, fx, fy) == resize(img, fx, fy)

\* scale factors tried: -1/2, 0, and the slider's 0.1, 0.3, 1, 2, 3 (no
\* product with an image size of the model falls halfway between integers)
ScaleFactors == {<<-1, 2>>, <<0, 1>>, <<1, 10>>, <<3, 10>>, <<1, 1>>, <<2, 1>>, <<3, 1>>}

Outcome(r, obj) == IF IsError(r) THEN Raised(r.error) ELSE Returned(r, obj)

(***************************************************************************)
(* ImageTransformer.affine_transform.  A point is <<X, Y>> in half-pixel   *)
(* units (the float32 point (X/2, Y/2)); pts1 and pts2 are 3-tuples.       *)
(***************************************************************************)
\* getAffineTransform solves the 6x6 system  M * (x_i, y_i, 1) = (u_i, v_i)
\* by LU; when the system is singular (pts1 collinear) solve() fails and
\* leaves the zero matrix.  The solution is written with Cramer's rule.
getAffineTransform(pts1, pts2) ==
    LET x(i) == pts1[i][1]
        y(i) == pts1[i][2]
        det == x(1) * (y(2) - y(3)) - y(1) * (x(2) - x(3))
               + (x(2) * y(3) - x(3) * y(2))
        s == IF det < 0 THEN -1 ELSE 1
        lin1(w) == w[1] * (y(2) - y(3)) + w[2] * (y(3) - y(1)) + w[3] * (y(1) - y(2))
        lin2(w) == w[1] * (x(3) - x(2)) + w[2] * (x(1) - x(3)) + w[3] * (x(2) - x(1))
        off(w) == w[1] * (x(2) * y(3) - x(3) * y(2))
                  + w[2] * (x(3) * y(1) - x(1) * y(3))
                  + w[3] * (x(1) * y(2) - x(2) * y(1))
        u == <<pts2[1][1], pts2[2][1], pts2[3][1]>>
        v == <<pts2[1][2], pts2[2][2], pts2[3][2]>>
    IN  IF det = 0 THEN ZeroMatrix
        ELSE [n |-> <<2 * s * lin1(u), 2 * s * lin2(u), s * off(u),
                      2 * s * lin1(v), 2 * s * lin2(v), s * off(v)>>,
              d |-> 2 * s * det]

affine_transform(img, pts1, pts2) ==
    LET M == getAffineTransform(pts1, pts2)
    IN  warpAffine(img, M, img.cols, img.rows)

(***************************************************************************)
(* ImageTransformer.projective.  pts1 and pts2 are 4-tuples of points.     *)
(* A 3x3 matrix is [n |-> <<h1, ..., h9>>, d |-> den], row-major.          *)
(***************************************************************************)
\* a function or tuple as an explicitly enumerated value
Enumerated(f) == f @@ <<>>

RECURSIVE GCD(_, _)
GCD(a, b) == IF b = 0 THEN Abs(a) ELSE GCD(b, a % Abs(b))

\* a tuple of integers divided by the gcd of its entries
RECURSIVE GCDOf(_, _)
GCDOf(row, j) == IF j > Len(row) THEN 0 ELSE GCD(row[j], GCDOf(row, j + 1))
Reduce(row) ==
    LET g == GCDOf(row, 1)
    IN  IF g <= 1 THEN row
        ELSE Enumerated([j \in 1..Len(row) |-> row[j] \div g])

\* solve(A, B, X, DECOMP_LU) on the augmented n x (n+1) integer matrix M:
\* Gaussian elimination below the diagonal from column k on, in exact
\* arithmetic (rows are kept integral and reduced).  The result is empty
\* when a column has no pivot (singular system).
RECURSIVE Eliminate(_, _, _)
Eliminate(M, k, n) ==
    IF k > n THEN M
    ELSE LET cand == {i \in k..n : M[i][k] # 0}
         IN  IF cand = {} THEN <<>>
             ELSE LET p == CHOOSE i \in cand : \A j \in cand : i <= j
                      S == [i \in 1..n |-> IF i = k THEN M[p]
                                           ELSE IF i = p THEN M[k] ELSE M[i]]
                      E == Enumerated([i \in 1..n |->
                              IF i <= k \/ S[i][k] = 0 THEN S[i]
                              ELSE Reduce(Enumerated([j \in 1..(n + 1) |->
                                       S[i][j] * S[k][k] - S[i][k] * S[k][j]]))])
                  IN  Eliminate(E, k + 1, n)

\* back substitution on the triangular matrix U, from row i upwards: sol is
\* <<N, D>> with x[j] = N[j] / D for the rows already solved
RECURSIVE BackSubstitute(_, _, _, _)
BackSubstitute(U, i, sol, n) ==
    IF i = 0 THEN sol
    ELSE LET N == sol[1]
             D == sol[2]
             RECURSIVE Sum(_)
             Sum(j) == IF j > n THEN 0 ELSE U[i][j] * N[j] + Sum(j + 1)
             top == U[i][n + 1] * D - Sum(i + 1)
             all == Enumerated([j \in 1..(n + 1) |->
                       IF j = n + 1 THEN U[i][i] * D
                       ELSE IF j = i THEN top
                       ELSE IF j > i THEN N[j] * U[i][i] ELSE 0])
             red == Reduce(all)
         IN  BackSubstitute(U, i - 1,
                            <<Enumerated([j \in 1..n |-> red[j]]), red[n + 1]>>, n)

IdentityTail == [n |-> <<0, 0, 0, 0, 0, 0, 0, 0, 1>>, d |-> 1]

\* getPerspectiveTransform: the 8x8 system for h11..h32 with h33 = 1,
\*   h11 x + h12 y + h13 - h31 x u - h32 y u = u   (and the same for v),
\* each row times 4 because the points are in half pixels; when it is
\* singular solve() leaves zeros and only M[8] = 1 is set
getPerspectiveTransform(pts1, pts2) ==
    LET x(i) == pts1[i][1]
        y(i) == pts1[i][2]
        u(i) == pts2[i][1]
        v(i) == pts2[i][2]
        A == [r \in 1..8 |->
                IF r <= 4
                THEN <<2 * x(r), 2 * y(r), 4, 0, 0, 0,
                       -x(r) * u(r), -y(r) * u(r), 2 * u(r)>>
                ELSE <<0, 0, 0, 2 * x(r - 4), 2 * y(r - 4), 4,
                       -x(r - 4) * v(r - 4), -y(r - 4) * v(r - 4), 2 * v(r - 4)>>]
        U == Eliminate(Enumerated([r \in 1..8 |-> Reduce(A[r])]), 1, 8)
    IN  IF U = <<>> THEN IdentityTail
        ELSE LET sol == BackSubstitute(U, 8, <<[j \in 1..8 |-> 0], 1>>, 8)
                 N == sol[1]
                 D == sol[2]
                 s == IF D < 0 THEN -1 ELSE 1
             IN  [n |-> <<s * N[1], s * N[2], s * N[3], s * N[4], s * N[5],
                          s * N[6], s * N[7], s * N[8], s * D>>,
                  d |-> s * D]

\* invert(M) for 3x3: the adjugate (the inverse up to the factor 1/det);
\* all zeros when det = 0
invert3x3(h) ==
    LET det == h[1] * (h[5] * h[9] - h[6] * h[8])
               - h[2] * (h[4] * h[9] - h[6] * h[7])
               + h[3] * (h[4] * h[8] - h[5] * h[7])
        s == IF det < 0 THEN -1 ELSE 1
    IN  IF det = 0 THEN <<0, 0, 0, 0, 0, 0, 0, 0, 0>>
        ELSE <<s * (h[5] * h[9] - h[6] * h[8]), s * (h[3] * h[8] - h[2] * h[9]),
               s * (h[2] * h[6] - h[3] * h[5]),
               s * (h[6] * h[7] - h[4] * h[9]), s * (h[1] * h[9] - h[3] * h[7]),
               s * (h[3] * h[4] - h[1] * h[6]),
               s * (h[4] * h[8] - h[5] * h[7]), s * (h[2] * h[7] - h[1] * h[8]),
               s * (h[1] * h[5] - h[2] * h[4])>>

\* cv2.warpPerspective(src, M, dsize): INTER_LINEAR, constant zero border
warpPerspective(src, M, width, height) ==
    LET A == invert3x3(M.n)
        X0(x, y) == A[1] * x + A[2] * y + A[3]
        Y0(x, y) == A[4] * x + A[5] * y + A[6]
        W(x, y) == A[7] * x + A[8] * y + A[9]
        fix(num, w) == IF w = 0 THEN 0
                       ELSE IF w < 0 THEN cvRound(-num * INTER_TAB_SIZE, -w)
                       ELSE cvRound(num * INTER_TAB_SIZE, w)
    IN  [rows |-> height, cols |-> width, ch |-> src.ch,
         px |-> [y \in 0..(height - 1) |->
                   [x \in 0..(width - 1) |->
                      [k \in 1..src.ch |->
                         remapBilinear(src, fix(X0(x, y), W(x, y)),
                                       fix(Y0(x, y), W(x, y)), k)]]]]

projective(img, pts1, pts2) ==
    LET matrix == getPerspectiveTransform(pts1, pts2)
    IN  warpPerspective(img, matrix, img.cols, img.rows)

(***************************************************************************)
(* The calls the model makes on a transformer                              *)
(***************************************************************************)
ScaleCalls == {[op |-> "scale", fx |-> fx, fy |-> fy] :
                   fx \in ScaleFactors, fy \in ScaleFactors}
RotateCalls == {[op |-> "rotate", angle |-> a] : a \in Angles}
TranslateCalls == {[op |-> "translate", dx |-> dx, dy |-> dy] :
                       dx \in -MaxShift..MaxShift, dy \in -MaxShift..MaxShift}

\* source triangles: main's (0,0), (W,0), (W/2,H/2) for a 2x2 image, a
\* right triangle, and three collinear points
AffineSrc == {<< <<0, 0>>, <<4, 0>>, <<2, 2>> >>,
              << <<0, 0>>, <<2, 0>>, <<0, 2>> >>,
              << <<0, 0>>, <<2, 2>>, <<4, 4>> >>}
\* destination triangles: the first two sources, a shifted one, a sheared
\* one, a half-pixel shift, three points on the line y = 0, one point thrice
AffineDst == {<< <<0, 0>>, <<4, 0>>, <<2, 2>> >>,
              << <<0, 0>>, <<2, 0>>, <<0, 2>> >>,
              << <<2, 0>>, <<6, 0>>, <<4, 2>> >>,
              << <<0, 0>>, <<4, 0>>, <<4, 2>> >>,
              << <<1, 1>>, <<5, 1>>, <<3, 3>> >>,
              << <<0, 0>>, <<4, 0>>, <<2, 0>> >>,
              << <<2, 2>>, <<2, 2>>, <<2, 2>> >>}
AffineCalls == {[op |-> "affine_transform", pts1 |-> p, pts2 |-> q] :
                    p \in AffineSrc, q \in AffineDst}

\* source quadrilaterals: main's corners (0,0), (0,H), (W,0), (W,H) for a
\* 2x2 image, and four collinear points
ProjectiveSrc == {<< <<0, 0>>, <<0, 4>>, <<4, 0>>, <<4, 4>> >>,
                  << <<0, 0>>, <<2, 0>>, <<4, 0>>, <<6, 0>> >>}
\* destination quadrilaterals: the corners, shifted by one and by half a
\* pixel, a trapezoid, the half-size square, four collinear points, one
\* point four times
ProjectiveDst == {<< <<0, 0>>, <<0, 4>>, <<4, 0>>, <<4, 4>> >>,
                  << <<2, 0>>, <<2, 4>>, <<6, 0>>, <<6, 4>> >>,
                  << <<1, 1>>, <<1, 5>>, <<5, 1>>, <<5, 5>> >>,
                  << <<0, 0>>, <<0, 4>>, <<4, 1>>, <<4, 3>> >>,
                  << <<0, 0>>, <<0, 2>>, <<2, 0>>, <<2, 2>> >>,
                  << <<0, 0>>, <<2, 0>>, <<4, 0>>, <<6, 0>> >>,
                  << <<2, 2>>, <<2, 2>>, <<2, 2>>, <<2, 2>> >>}
ProjectiveCalls == {[op |-> "projective", pts1 |-> p, pts2 |-> q] :
                        p \in ProjectiveSrc, q \in ProjectiveDst}

Calls == ScaleCalls \cup RotateCalls \cup TranslateCalls \cup AffineCalls
         \cup ProjectiveCalls

\* the method a call record names, applied to the transformer's array
Apply(img, c) ==
    CASE c.op = "scale" -> scale(img, c.fx, c.fy)
      [] c.op = "rotate" -> rotate(img, c.angle)
      [] c.op = "affine_transform" -> affine_transform(img, c.pts1, c.pts2)
      [] c.op = "translate" -> translate(img, c.dx, c.dy)
      [] c.op = "projective" -> projective(img, c.pts1, c.pts2)

\* every call's value on every image, computed once
Values == [img \in Images |-> [c \in Calls |-> Apply(img, c)]]

(***************************************************************************)
(* The transformer: constructed on one array, then called                  *)
(***************************************************************************)
None == [none |-> TRUE]
NoSession ==
    /\ uploaded_file = None
    /\ option = None
    /\ widgets = None
    /\ invoked = <<>>
    /\ shown = [original |-> None, transformed |-> None]
    /\ download = None
    /\ saved = {}
    /\ nsaves = 0
    /\ clock = 0

Init ==
    /\ image \in Images
    /\ imageObj = 1
    /\ source = image
    /\ call = NoCall
    /\ ret = NoReturn
    /\ NoSession

Scale(fx, fy) ==
    LET c == [op |-> "scale", fx |-> fx, fy |-> fy]
    IN  /\ call' = c
        /\ ret' = Outcome(Values[image][c], NewObj({imageObj}))
        /\ UNCHANGED <<image, imageObj, source, session>>

Rotate(angle) ==
    LET c == [op |-> "rotate", angle |-> angle]
    IN  /\ call' = c
        /\ ret' = Outcome(Values[image][c], NewObj({imageObj}))
        /\ UNCHANGED <<image, imageObj, source, session>>

AffineTransform(pts1, pts2) ==
    LET c == [op |-> "affine_transform", pts1 |-> pts1, pts2 |-> pts2]
    IN  /\ call' = c
        /\ ret' = Outcome(Values[image][c], NewObj({imageObj}))
        /\ UNCHANGED <<image, imageObj, source, session>>

\* a translate that writes its result into self.image and returns it
TranslateInPlace(dx, dy) ==
    LET c == [op |-> "translate", dx |-> dx, dy |-> dy]
    IN  /\ call' = c
        /\ image' = Values[image][c]
        /\ ret' = Returned(image', imageObj)
        /\ UNCHANGED <<imageObj, source, session>>

Translate(dx, dy) ==
    LET c == [op |-> "translate", dx |-> dx, dy |-> dy]
    IN  /\ call' = c
        /\ ret' = Outcome(Values[image][c], NewObj({imageObj}))
        /\ UNCHANGED <<image, imageObj, source, session>>

Projective(pts1, pts2) ==
    LET c == [op |-> "projective", pts1 |-> pts1, pts2 |-> pts2]
    IN  /\ call' = c
        /\ ret' = Outcome(Values[image][c], NewObj({imageObj}))
        /\ UNCHANGED <<image, imageObj, source, session>>

Next ==
    \/ \E fx \in ScaleFactors, fy \in ScaleFactors : Scale(fx, fy)
    \/ \E angle \in Angles : Rotate(angle)
    \/ \E pts1 \in AffineSrc, pts2 \in AffineDst : AffineTransform(pts1, pts2)
    \/ \E dx \in -MaxShift..MaxShift, dy \in -MaxShift..MaxShift : Translate(dx, dy)
    \/ \E pts1 \in ProjectiveSrc, pts2 \in ProjectiveDst : Projective(pts1, pts2)

Spec == Init /\ [][Next]_vars

(***************************************************************************)
(* main(): one run of the Streamlit script per user interaction            *)
(***************************************************************************)
Options == {"Scaling", "Rotation", "Affine Transformation", "Translation",
            "Projective"}

\* uploaded files: a name (its characters) and the decoded pixels
Uploads ==
    {[name |-> <<"c", "a", "t", ".", "p", "n", "g">>,
      img |-> MkImage(2, 2, 1, "ramp")],
     [name |-> <<"c", "a", "t", ".", "v", "2", ".", "j", "p", "g">>,
      img |-> MkImage(1, 2, 3, "ramp")]}

\* name.split(".")[0]: the characters before the first "."
RECURSIVE SplitFirst(_)
SplitFirst(name) ==
    IF name = <<>> \/ Head(name) = "." THEN <<>>
    ELSE <<Head(name)>> \o SplitFirst(Tail(name))

\* time.strftime("%Y%m%d-%H%M%S"): the clock cut to whole seconds
strftime(t) == t \div TicksPerSecond

\* f'{option}_{base}_{timestamp}.png'
OutputName(opt, name, t) ==
    [kind |-> opt, base |-> SplitFirst(name), timestamp |-> strftime(t),
     ext |-> "png"]

\* values the widgets of the selected option can hold for an image; the
\* sliders at their minimum, default and maximum (or one step off the
\* default), the number inputs at their defaults or with one point moved
SliderFactors == {<<1, 10>>, <<1, 1>>, <<3, 1>>}
SliderAngles == {0, 180, 360}
SliderShifts == {-500, 0, 1}
AffinePts1(img) == << <<0, 0>>, <<2 * img.cols, 0>>, <<img.cols, img.rows>> >>
ProjectivePts1(img) == << <<0, 0>>, <<0, 2 * img.rows>>, <<2 * img.cols, 0>>,
                          <<2 * img.cols, 2 * img.rows>> >>
Moved(pts) == [pts EXCEPT ![1] = <<2, 0>>]
Widgets(opt, img) ==
    CASE opt = "Scaling" ->
            {[fx |-> f, fy |-> f] : f \in SliderFactors}
            \cup {[fx |-> <<1, 1>>, fy |-> <<3, 1>>]}
      [] opt = "Rotation" -> {[angle |-> a] : a \in SliderAngles}
      [] opt = "Affine Transformation" ->
            {[pts2 |-> AffinePts1(img)], [pts2 |-> Moved(AffinePts1(img))]}
      [] opt = "Translation" ->
            {[dx |-> d, dy |-> 0] : d \in SliderShifts}
            \cup {[dx |-> 0, dy |-> 1]}
      [] opt = "Projective" ->
            {[pts2 |-> ProjectivePts1(img)],
             [pts2 |-> Moved(ProjectivePts1(img))]}

\* a chain whose 'Rotation' branch calls rotate a second time
BranchTwice(opt, img, w) ==
    IF opt = "Scaling"
    THEN << [op |-> "scale", fx |-> w.fx, fy |-> w.fy] >>
    ELSE IF opt = "Rotation"
    THEN << [op |-> "rotate", angle |-> w.angle],
            [op |-> "rotate", angle |-> w.angle] >>
    ELSE IF opt = "Affine Transformation"
    THEN << [op |-> "affine_transform", pts1 |-> AffinePts1(img),
             pts2 |-> w.pts2] >>
    ELSE IF opt = "Translation"
    THEN << [op |-> "translate", dx |-> w.dx, dy |-> w.dy] >>
    ELSE << [op |-> "projective", pts1 |-> ProjectivePts1(img),
             pts2 |-> w.pts2] >>

\* the if/elif chain on the selection: the method calls the chosen branch
\* makes on the transformer, in order
Branch(opt, img, w) ==
    IF opt = "Scaling"
    THEN << [op |-> "scale", fx |-> w.fx, fy |-> w.fy] >>
    ELSE IF opt = "Rotation"
    THEN << [op |-> "rotate", angle |-> w.angle] >>
    ELSE IF opt = "Affine Transformation"
    THEN << [op |-> "affine_transform", pts1 |-> AffinePts1(img),
             pts2 |-> w.pts2] >>
    ELSE IF opt = "Translation"
    THEN << [op |-> "translate", dx |-> w.dx, dy |-> w.dy] >>
    ELSE << [op |-> "projective", pts1 |-> ProjectivePts1(img),
             pts2 |-> w.pts2] >>

\* the values of the calls each run makes, computed once
RunValues ==
    [f \in Uploads |-> [o \in Options |-> [w \in Widgets(o, f.img) |->
        LET cs == Branch(o, f.img, w)
        IN  Enumerated([k \in 1..Len(cs) |-> Apply(f.img, cs[k])])]]]

\* Image.fromarray(result).save(output, format="PNG"); output.getvalue()
EncodePNG(arr) == [format |-> "PNG", pixels |-> arr]

InitMain ==
    /\ image = None
    /\ imageObj = 0
    /\ source = None
    /\ call = NoCall
    /\ ret = NoReturn
    /\ NoSession

\* one run of main() with the given widget state; clicked is the value of
\* st.button('Save Output Image') in this run
main(file, opt, w, clicked) ==
    /\ uploaded_file' = file
    /\ IF file = None
       THEN /\ option' = None
            /\ widgets' = None
            /\ image' = None /\ imageObj' = 0 /\ source' = None
            /\ call' = NoCall /\ ret' = NoReturn
            /\ invoked' = <<>>
            /\ shown' = [original |-> None, transformed |-> None]
            /\ download' = None
            /\ UNCHANGED <<saved, nsaves>>
       ELSE LET img_array == file.img
                cs == Branch(opt, img_array, w)
                vals == RunValues[file][opt][w]
                last == Outcome(vals[Len(cs)], NewObj({1}))
                ok == \A k \in 1..Len(cs) : ~IsError(vals[k])
                output_name == OutputName(opt, file.name, clock)
            IN  /\ option' = opt
                /\ widgets' = w
                /\ image' = img_array /\ imageObj' = 1 /\ source' = img_array
                /\ invoked' = cs
                /\ call' = cs[Len(cs)]
                /\ ret' = last
                /\ shown' = [original |-> img_array,
                             transformed |-> IF ok THEN last.val ELSE None]
                /\ IF ok /\ clicked
                   THEN /\ download' = [file_name |-> output_name,
                                        data |-> EncodePNG(last.val)]
                        /\ saved' = saved \cup {output_name}
                        /\ nsaves' = nsaves + 1
                   ELSE /\ download' = None
                        /\ UNCHANGED <<saved, nsaves>>
    /\ UNCHANGED clock

\* the user changes the upload, the selection or a widget: a rerun in which
\* the save button reads False
Interact ==
    \/ main(None, None, None, FALSE)
    \/ \E file \in Uploads, opt \in Options :
           \E w \in Widgets(opt, file.img) : main(file, opt, w, FALSE)

\* the user clicks 'Save Output Image', which the last run rendered: a rerun
\* with the same widget state in which the button reads True
ClickSave ==
    /\ shown.transformed # None
    /\ nsaves < MaxSaves
    /\ main(uploaded_file, option, widgets, TRUE)

Tick ==
    /\ clock < MaxClock
    /\ clock' = clock + 1
    /\ UNCHANGED <<transformer, uploaded_file, option, widgets, invoked,
                   shown, download, saved, nsaves>>

NextMain == Interact \/ ClickSave \/ Tick

SpecMain == InitMain /\ [][NextMain]_vars

(***************************************************************************)
(* Properties                                                              *)
(***************************************************************************)
IsArray(r) == r.kind = "array"
Inside(img, r, c) == r >= 0 /\ r < img.rows /\ c >= 0 /\ c < img.cols
Pixels(img) == (0..(img.rows - 1)) \X (0..(img.cols - 1))
Positive(f) == f[1] > 0

\* C1: the array held by the transformer stays, pixel for pixel and in its
\* dimensions, the array given at construction, whatever calls are made,
\* and a call that returns hands back a new array object, not self.image
C1_SourceUnchanged ==
    /\ image = source
    /\ imageObj = 1
    /\ IsArray(ret) => ret.obj # imageObj

C1_Witness ==
    /\ call.op \in {"scale", "rotate", "affine_transform", "translate", "projective"}
    /\ IsArray(ret)
    /\ ret.val # image
    /\ image = source

\* C2: translate(dx, dy) returns an array of the input's size whose pixel
\* at (r, c) is the input's pixel at (r - dy, c - dx) when that lies inside
\* the input and 0 otherwise; so translate(0, 0) returns the input, and the
\* 4x4 image with 255 at (0,0) moved by dx = 1 has the 255 at (0,1) and a
\* zero column 0
C2_TranslateIsShift ==
    call.op = "translate" =>
        /\ IsArray(ret)
        /\ ret.val.rows = image.rows /\ ret.val.cols = image.cols
        /\ \A p \in Pixels(image) : \A k \in 1..image.ch :
              ret.val.px[p[1]][p[2]][k] =
                 IF Inside(image, p[1] - call.dy, p[2] - call.dx)
                 THEN image.px[p[1] - call.dy][p[2] - call.dx][k] ELSE 0
        /\ (call.dx = 0 /\ call.dy = 0) => ret.val = image
        /\ (image = Dot4x4 /\ call.dx = 1 /\ call.dy = 0) =>
              /\ ret.val.px[0][1] = <<255>>
              /\ \A r \in 0..3 : ret.val.px[r][0] = <<0>>

C2_Witness ==
    /\ image = Dot4x4
    /\ call = [op |-> "translate", dx |-> 1, dy |-> 0]
    /\ IsArray(ret)
    /\ ret.val.px[0][1] = <<255>>
    /\ ret.val.px[0][0] = <<0>>

\* C3: rotate, affine_transform, translate and projective always return an
\* array with the input's row and column counts, and whatever any of the
\* five methods returns has the input's channel count
C3_SizeAndChannels ==
    /\ call.op \in {"rotate", "affine_transform", "translate", "projective"} =>
          /\ IsArray(ret)
          /\ ret.val.rows = image.rows
          /\ ret.val.cols = image.cols
    /\ IsArray(ret) =>
          /\ ret.val.ch = image.ch
          /\ \A p \in Pixels(ret.val) : Len(ret.val.px[p[1]][p[2]]) = image.ch

C3_Witness ==
    /\ call.op = "rotate"
    /\ call.angle = 90
    /\ image.rows # image.cols
    /\ image.ch = 3
    /\ IsArray(ret)
    /\ ret.val.rows = image.rows

\* C4: for scale factors fx, fy > 0, scale returns an array whose width is
\* W * fx and whose height is H * fy rounded to a nearest integer (a tie
\* to either side); scale(2, 2) returns an array of 2H rows and 2W columns
C4_ScaleSize ==
    (call.op = "scale" /\ Positive(call.fx) /\ Positive(call.fy)) =>
        /\ IsArray(ret)
        /\ Abs(2 * ret.val.cols * call.fx[2] - 2 * image.cols * call.fx[1])
              <= call.fx[2]
        /\ Abs(2 * ret.val.rows * call.fy[2] - 2 * image.rows * call.fy[1])
              <= call.fy[2]

\* three points on one line (or not all distinct)
Collinear(a, b, c) ==
    (b[1] - a[1]) * (c[2] - a[2]) = (b[2] - a[2]) * (c[1] - a[1])
Degenerate3(pts) == Collinear(pts[1], pts[2], pts[3])
Degenerate4(pts) ==
    \E i, j, k \in 1..4 : i < j /\ j < k /\ Collinear(pts[i], pts[j], pts[k])

\* C5: affine_transform with three collinear points and projective with
\* four points that form no quadrilateral fail with an error and return no
\* array
C5_DegenerateFails ==
    /\ (call.op = "affine_transform"
        /\ (Degenerate3(call.pts1) \/ Degenerate3(call.pts2)))
          => ~IsArray(ret) /\ ret.kind = "error"
    /\ (call.op = "projective"
        /\ (Degenerate4(call.pts1) \/ Degenerate4(call.pts2)))
          => ~IsArray(ret) /\ ret.kind = "error"

\* C6: scale fails, returning no array, exactly when fx <= 0 or fy <= 0:
\* it fails for every such pair and succeeds for every fx > 0 and fy > 0
C6_ScaleFailsIffNonPositive ==
    call.op = "scale" =>
        (ret.kind = "error" <=> ~(Positive(call.fx) /\ Positive(call.fy)))

\* the image flipped along both axes
Flipped(img, r, c, k) == img.px[img.rows - 1 - r][img.cols - 1 - c][k]

\* C7: rotate(180) returns the input flipped along both axes up to a
\* one-pixel tolerance, read in the most generous way: every output sample
\* equals the flipped image's sample at most one pixel away, or the output
\* differs from the flipped image in at most one pixel, or every sample
\* differs from the flipped image's by at most 1
C7_Rotate180IsFlip ==
    (call.op = "rotate" /\ call.angle = 180 /\ IsArray(ret)) =>
        \/ \A p \in Pixels(image) : \A k \in 1..image.ch :
              \E q \in Pixels(image) :
                 /\ Abs(q[1] - p[1]) <= 1 /\ Abs(q[2] - p[2]) <= 1
                 /\ ret.val.px[p[1]][p[2]][k] = Flipped(image, q[1], q[2], k)
        \/ Cardinality({p \in Pixels(image) : \E k \in 1..image.ch :
              ret.val.px[p[1]][p[2]][k] # Flipped(image, p[1], p[2], k)}) <= 1
        \/ \A p \in Pixels(image) : \A k \in 1..image.ch :
              Abs(ret.val.px[p[1]][p[2]][k] - Flipped(image, p[1], p[2], k)) <= 1

\* C8: rotate(0) returns exactly the input, and rotate(360) returns the
\* same array as rotate(0)
C8_Rotate0And360 ==
    (call.op = "rotate" /\ call.angle \in {0, 360}) =>
        /\ IsArray(ret)
        /\ ret.val = image
        /\ ret.val = Values[image][[op |-> "rotate", angle |-> 360 - call.angle]]

C8_Witness ==
    /\ call = [op |-> "rotate", angle |-> 360]
    /\ image = MkImage(2, 1, 3, "ramp")
    /\ IsArray(ret)
    /\ ret.val = image

\* the method each selection stands for
MethodOf(opt) ==
    CASE opt = "Scaling" -> "scale"
      [] opt = "Rotation" -> "rotate"
      [] opt = "Affine Transformation" -> "affine_transform"
      [] opt = "Translation" -> "translate"
      [] OTHER -> "projective"

\* C9: a run of main with an uploaded file makes exactly one call, of the
\* method its selection stands for, on a transformer built from the upload,
\* and what is displayed and what is encoded for download is what that
\* call returned; a run without a file builds no transformer, makes no
\* call, displays nothing and offers no download
C9_OneCallPerRun ==
    IF uploaded_file = None
    THEN /\ image = None
         /\ invoked = <<>>
         /\ call = NoCall
         /\ shown = [original |-> None, transformed |-> None]
         /\ download = None
    ELSE /\ image = uploaded_file.img
         /\ source = uploaded_file.img
         /\ Len(invoked) = 1
         /\ invoked[1].op = MethodOf(option)
         /\ call = invoked[1]
         /\ ret = Outcome(Apply(uploaded_file.img, invoked[1]), ret.obj)
         /\ shown.transformed # None =>
               IsArray(ret) /\ shown.transformed = ret.val
         /\ download # None =>
               IsArray(ret) /\ download.data = EncodePNG(ret.val)

C9_Witness ==
    /\ uploaded_file # None
    /\ option = "Rotation"
    /\ Len(invoked) = 1
    /\ download # None
    /\ download.data = EncodePNG(shown.transformed)

\* C10: any two 'Save Output Image' events give different file names: the
\* names given so far are as many as the save events
C10_SaveNamesUnique == Cardinality(saved) = nsaves

====
